---- MODULE Spec2Model ----
(***************************************************************************)
(* Model of package genutils (src/unnamed/part_000): the Builder that      *)
(* accumulates a Cmd, register() that projects the Cmd into the marker     *)
(* registry, the cobra RunE dispatcher built by Cmd.cmd(), the error       *)
(* handling of Cmd.Run() and the help renderer helpForLevels().            *)
(*                                                                         *)
(* Strings that take part in marker-name derivation are modelled as the    *)
(* sequence of their ":"-separated segments ("output:dir" is               *)
(* <<"output", "dir">>), so that joining with ":" is sequence              *)
(* concatenation and two derived names are equal exactly when the Go       *)
(* strings are equal.                                                      *)
(*                                                                         *)
(* Go maps are references: a map lives in `heap` under an address and a    *)
(* Cmd holds addresses.                                                    *)
(***************************************************************************)
EXTENDS Integers, Sequences, FiniteSets, TLC

VARIABLES
    pc,          \* position of the main program
    chain,       \* the Builder handed to Apply (dead once Run is entered)
    dupKeys,     \* generator keys the frozen Builder passed to WithGenerator more than once
    heap,        \* map address -> map contents (Go maps are references)
    registry,    \* registry address -> marker name -> definition
    cmd,         \* the Cmd returned by Apply
    iterated,    \* generator keys the generator loop of register has visited
    showVersion, \* --version flag (local of Cmd.cmd)
    helpLevel,   \* -h counter (local of Cmd.cmd)
    whichLevel,  \* -w counter (local of Cmd.cmd)
    args,        \* the flag values as parsed from the command line
    branch,      \* the branch RunE took
    ran,         \* the generators runtime.Run executed
    err,         \* the error cmd.Execute() returned
    out,         \* everything written, in order: [stream, text]
    mark,        \* Len(out) when RunE returned
    failed,      \* the diagnostic write of Run's error handling that failed
    exitCode,    \* process exit status
    hlevel,      \* helpForLevels under test: whichLevel argument
    hinfo,       \* helpForLevels under test: help.ByCategory result
    hres,        \* helpForLevels under test: what it wrote and returned
    tool         \* the scaffolding tool (cmd/genutils): flags, locals of runE, result

vars == <<pc, chain, dupKeys, heap, registry, cmd, iterated, showVersion, helpLevel,
          whichLevel, args, branch, ran, err, out, mark, failed, exitCode,
          hlevel, hinfo, hres, tool>>

(***************************************************************************)
(* Bounds                                                                  *)
(***************************************************************************)
\* Builder method calls after New on one chain.
MaxChain == 3
\* Repetitions of -w or -h on one command line.
MaxCount == 5
\* Categories in one help.ByCategory result of the renderer under test.
MaxCats == 2

(***************************************************************************)
(* Values                                                                  *)
(***************************************************************************)
Nil == "nil"

EmptyMap == <<>>

MapPut(m, k, v) == [x \in (DOMAIN m) \cup {k} |-> IF x = k THEN v ELSE m[x]]

\* Generator plugins the caller supplies. "G2" implements genall.HasHelp.
Generators == {"G1", "G2"}

\* Output rule plugins: the two defaults of New and a caller-supplied one.
OutputRules == {"OutputToDirectory", "OutputToStdout", "R1"}

\* Keys the caller passes to WithGenerator / WithOutputRule.
GenKeyArgs == {<<"a">>, <<"output", "dir">>}

RuleKeyArgs == {<<"x">>}

\* Maps the caller owns and passes to WithGenerators / WithOutputRules,
\* with the contents the caller gave them.
GenMapArgs == {<<"gm", 0>>}

RuleMapArgs == {<<"rm", 0>>}

CallerHeap ==
    [a \in GenMapArgs \cup RuleMapArgs |->
        IF a \in GenMapArgs THEN MapPut(EmptyMap, <<"b">>, "G2")
                            ELSE MapPut(EmptyMap, <<"y">>, "R1")]

NoCmd == [name |-> Nil]

(***************************************************************************)
(* Builder: a Builder is a closure func() Cmd.  It is represented by the   *)
(* list of the calls that built it, New first; calling it (Call) runs the  *)
(* closures from New outwards.                                             *)
(***************************************************************************)
New(name) == <<[op |-> "New", key |-> <<>>, val |-> name]>>

WithDescription(b, description) ==
    Append(b, [op |-> "WithDescription", key |-> <<>>, val |-> description])

WithHelper(b, helper) ==
    Append(b, [op |-> "WithHelper", key |-> <<>>, val |-> helper])

WithGenerator(b, key, generator) ==
    Append(b, [op |-> "WithGenerator", key |-> key, val |-> generator])

WithGenerators(b, generators) ==
    Append(b, [op |-> "WithGenerators", key |-> <<>>, val |-> generators])

WithOutputRule(b, key, outputRule) ==
    Append(b, [op |-> "WithOutputRule", key |-> key, val |-> outputRule])

WithOutputRules(b, outputRules) ==
    Append(b, [op |-> "WithOutputRules", key |-> <<>>, val |-> outputRules])

\* The Builders one more method call away from b.
Extend(b) ==
    {WithDescription(b, "d"), WithHelper(b, "h")}
    \cup {WithGenerator(b, k, g) : k \in GenKeyArgs, g \in Generators}
    \cup {WithGenerators(b, m) : m \in GenMapArgs}
    \cup {WithOutputRule(b, k, "R1") : k \in RuleKeyArgs}
    \cup {WithOutputRules(b, m) : m \in RuleMapArgs}

RECURSIVE BuildersUpTo(_)
BuildersUpTo(n) ==
    IF n = 0 THEN {New("demo")}
    ELSE LET prev == BuildersUpTo(n - 1)
         IN  prev \cup UNION {Extend(b) : b \in prev}

Builders == BuildersUpTo(MaxChain)

\* Mutant: the registry is allocated once and shared by every call of the
\* closure.
NewBody_SharedRegistry(name, h, r, n) ==
    [g |-> [name           |-> name,
            description    |-> "",
            helper         |-> "",
            generators     |-> <<"generators", n>>,
            markerRegistry |-> <<"registry", 1>>,
            outputRules    |-> <<"outputRules", n>>],
     h |-> [a \in (DOMAIN h) \cup {<<"generators", n>>, <<"outputRules", n>>} |->
              IF a = <<"generators", n>> THEN EmptyMap
              ELSE IF a = <<"outputRules", n>>
                   THEN MapPut(MapPut(EmptyMap, <<"dir">>, "OutputToDirectory"),
                               <<"stdout">>, "OutputToStdout")
                   ELSE h[a]],
     r |-> [a \in (DOMAIN r) \cup {<<"registry", 1>>} |->
              IF a \in DOMAIN r THEN r[a] ELSE EmptyMap]]

\* The closure New returns: a Cmd with fresh maps and a fresh registry.
\* n numbers the allocation.
NewBody(name, h, r, n) ==
    [g |-> [name           |-> name,
            description    |-> "",
            helper         |-> "",
            generators     |-> <<"generators", n>>,
            markerRegistry |-> <<"registry", n>>,
            outputRules    |-> <<"outputRules", n>>],
     h |-> [a \in (DOMAIN h) \cup {<<"generators", n>>, <<"outputRules", n>>} |->
              IF a = <<"generators", n>> THEN EmptyMap
              ELSE IF a = <<"outputRules", n>>
                   THEN MapPut(MapPut(EmptyMap, <<"dir">>, "OutputToDirectory"),
                               <<"stdout">>, "OutputToStdout")
                   ELSE h[a]],
     r |-> [a \in (DOMAIN r) \cup {<<"registry", n>>} |->
              IF a = <<"registry", n>> THEN EmptyMap ELSE r[a]]]

\* Mutant: an existing key keeps its generator (first writer wins).
WithGeneratorBody_KeepFirst(s, key, generator) ==
    IF key \in DOMAIN s.h[s.g.generators] THEN s
    ELSE [s EXCEPT !.h[s.g.generators] = MapPut(@, key, generator)]

\* g.generators[key] = generator: writes through the reference.
WithGeneratorBody(s, key, generator) ==
    [s EXCEPT !.h[s.g.generators] = MapPut(@, key, generator)]

\* g.generators = generators: the Cmd now holds the caller's map itself.
WithGeneratorsBody(s, generators) ==
    [s EXCEPT !.g.generators = generators]

\* g.outputRules[key] = outputRule: writes through the reference.
WithOutputRuleBody(s, key, outputRule) ==
    [s EXCEPT !.h[s.g.outputRules] = MapPut(@, key, outputRule)]

\* g.outputRules = outputRules: the Cmd now holds the caller's map itself.
WithOutputRulesBody(s, outputRules) ==
    [s EXCEPT !.g.outputRules = outputRules]

\* Mutant: WithHelper stores its argument in the description.
MethodBody_HelperIntoDescription(s, c) ==
    CASE c.op = "WithDescription" -> [s EXCEPT !.g.description = c.val]
      [] c.op = "WithHelper"      -> [s EXCEPT !.g.description = c.val]
      [] c.op = "WithGenerator"   -> WithGeneratorBody(s, c.key, c.val)
      [] c.op = "WithGenerators"  -> [s EXCEPT !.g.generators = c.val]
      [] c.op = "WithOutputRule"  ->
            [s EXCEPT !.h[s.g.outputRules] = MapPut(@, c.key, c.val)]
      [] c.op = "WithOutputRules" -> [s EXCEPT !.g.outputRules = c.val]

\* One closure body applied to the result s of the prior Builder.
MethodBody(s, c) ==
    CASE c.op = "WithDescription" -> [s EXCEPT !.g.description = c.val]
      [] c.op = "WithHelper"      -> [s EXCEPT !.g.helper = c.val]
      [] c.op = "WithGenerator"   -> WithGeneratorBody(s, c.key, c.val)
      [] c.op = "WithGenerators"  -> WithGeneratorsBody(s, c.val)
      [] c.op = "WithOutputRule"  -> WithOutputRuleBody(s, c.key, c.val)
      [] c.op = "WithOutputRules" -> WithOutputRulesBody(s, c.val)

\* b(): g := (prior b)(); mutate g; return g.
RECURSIVE Call(_, _, _, _)
Call(b, h, r, n) ==
    IF Len(b) = 1 THEN NewBody(b[1].val, h, r, n)
    ELSE MethodBody(Call(SubSeq(b, 1, Len(b) - 1), h, r, n), b[Len(b)])

\* Generator keys that b passes to WithGenerator more than once.
DupKeysOf(b) ==
    {k \in GenKeyArgs :
        \E i, j \in 1..Len(b) :
            /\ i < j
            /\ b[i].op = "WithGenerator" /\ b[i].key = k
            /\ b[j].op = "WithGenerator" /\ b[j].key = k}

\* The maps behind a Cmd.
GeneratorsOf(g, h) == h[g.generators]

OutputRulesOf(g, h) == h[g.outputRules]

(***************************************************************************)
(* Apply: cmd := b.Apply()                                                 *)
(***************************************************************************)
Apply ==
    /\ pc = "start"
    /\ \E b \in Builders :
         LET s == Call(b, heap, registry, 1)
         IN  /\ cmd' = s.g
             /\ heap' = s.h
             /\ registry' = s.r
             /\ chain' = b
             /\ dupKeys' = DupKeysOf(b)
    /\ pc' = "applied"
    /\ UNCHANGED <<iterated, showVersion, helpLevel, whichLevel, args, branch, ran,
                   err, out, mark, failed, exitCode, hlevel, hinfo, hres, tool>>

(***************************************************************************)
(* register(g): projects the Cmd into its marker registry.                 *)
(***************************************************************************)
\* generator.(genall.HasHelp) / rule.(genall.HasHelp)
HasHelp(obj) == obj \in {"G2", "OutputToDirectory", "OutputToStdout", "R1"}

\* helpGiver.Help(): "R1" has the capability and returns nil.
NoHelp == <<>>

Help(obj) == IF obj = "R1" THEN NoHelp ELSE <<"help", obj>>

\* Marker names register derives.
GeneratorMarkerName(genName) == genName

\* Mutant: the per-generator rule marker with its two names swapped.
GeneratorRuleMarkerName_Swapped(genName, ruleName) ==
    <<"output">> \o ruleName \o genName

GeneratorRuleMarkerName(genName, ruleName) == <<"output">> \o genName \o ruleName

\* Mutant: the default-output marker carries one more name segment.
DefaultRuleMarkerName_Prefixed(ruleName) == <<"output", "default">> \o ruleName

DefaultRuleMarkerName(ruleName) == <<"output">> \o ruleName

\* The markers genall.RegisterOptionsMarkers adds (the engine's own options).
OptionsMarkers == {<<"paths">>}

\* markers.Registry.Register as the specification describes the engine:
\* re-registering an existing marker name is an error.
RegistryRegister(reg, def) ==
    IF def.name \in DOMAIN reg
    THEN [err |-> TRUE, reg |-> reg]
    ELSE [err |-> FALSE,
          reg |-> MapPut(reg, def.name, [obj |-> def.obj, help |-> NoHelp])]

\* Mutant: help is attached for generators only, not for output rules.
AddHelpIfAny_GeneratorsOnly(reg, def) ==
    IF def.obj \in Generators /\ HasHelp(def.obj) /\ Help(def.obj) # NoHelp
    THEN [reg EXCEPT ![def.name].help = Help(def.obj)]
    ELSE reg

\* if helpGiver, hasHelp := obj.(genall.HasHelp); hasHelp {
\*     if h := helpGiver.Help(); h != nil { AddHelp(def, h) } }
AddHelpIfAny(reg, def) ==
    IF HasHelp(def.obj) /\ Help(def.obj) # NoHelp
    THEN [reg EXCEPT ![def.name].help = Help(def.obj)]
    ELSE reg

\* The iteration orders a `range` over a map with key set S can take.
Orders(S) ==
    {f \in [1..Cardinality(S) -> S] :
        \A i, j \in 1..Cardinality(S) : i # j => f[i] # f[j]}

\* The definitions one iteration of the generator loop registers, in order.
GeneratorDefs(genName, gens, rules, ro) ==
    <<[name |-> GeneratorMarkerName(genName), obj |-> gens[genName]]>>
    \o [i \in 1..Len(ro) |->
          [name |-> GeneratorRuleMarkerName(genName, ro[i]), obj |-> rules[ro[i]]]]

\* The definitions the "default output" loop registers, in order.
DefaultRuleDefs(rules, do) ==
    [i \in 1..Len(do) |-> [name |-> DefaultRuleMarkerName(do[i]), obj |-> rules[do[i]]]]

\* Mutant: a failing Register ends the loop with a plain return, not a panic.
RECURSIVE RegisterFrom_ReturnOnError(_, _, _)
RegisterFrom_ReturnOnError(reg, defs, i) ==
    IF i > Len(defs) THEN [panicked |-> FALSE, reg |-> reg]
    ELSE LET r == RegistryRegister(reg, defs[i])
         IN  IF r.err THEN [panicked |-> FALSE, reg |-> reg]
             ELSE RegisterFrom_ReturnOnError(AddHelpIfAny(r.reg, defs[i]), defs, i + 1)

\* Register each definition in turn and attach its help; the first failing
\* Register panics and leaves the registry as it is by then.
RECURSIVE RegisterFrom(_, _, _)
RegisterFrom(reg, defs, i) ==
    IF i > Len(defs) THEN [panicked |-> FALSE, reg |-> reg]
    ELSE LET r == RegistryRegister(reg, defs[i])
         IN  IF r.err THEN [panicked |-> TRUE, reg |-> reg]
             ELSE RegisterFrom(AddHelpIfAny(r.reg, defs[i]), defs, i + 1)

\* genall.RegisterOptionsMarkers(g.markerRegistry)
RECURSIVE RegisterOptionsMarkers(_, _)
RegisterOptionsMarkers(reg, todo) ==
    IF todo = {} THEN [panicked |-> FALSE, reg |-> reg]
    ELSE LET n == CHOOSE x \in todo : TRUE
             r == RegistryRegister(reg, [name |-> n, obj |-> "InputPaths"])
         IN  IF r.err THEN [panicked |-> TRUE, reg |-> reg]
             ELSE RegisterOptionsMarkers(
                      [r.reg EXCEPT ![n].help = <<"help", "InputPaths">>], todo \ {n})

\* One iteration of `for genName, generator := range g.generators`, its
\* inner rule loop iterating in order ro.
registerGenerator(genName, gens, rules, reg, ro) ==
    RegisterFrom(reg, GeneratorDefs(genName, gens, rules, ro), 1)

\* Mutant: register returns without adding the engine's option markers.
registerDefaults_NoOptions(rules, reg, do) ==
    RegisterFrom(reg, DefaultRuleDefs(rules, do), 1)

\* The rest of register: the "default output" loop iterating in order do,
\* then the engine's own option markers.
registerDefaults(rules, reg, do) ==
    LET r == RegisterFrom(reg, DefaultRuleDefs(rules, do), 1)
    IN  IF r.panicked THEN r ELSE RegisterOptionsMarkers(r.reg, OptionsMarkers)

(***************************************************************************)
(* Run, first statement: register(c).  Go iterates a map in any order, so  *)
(* the generator loop takes the generators one at a time in any order.     *)
(***************************************************************************)
RegisterGenerator ==
    /\ pc = "applied"
    /\ LET gens  == GeneratorsOf(cmd, heap)
           rules == OutputRulesOf(cmd, heap)
       IN  \E genName \in (DOMAIN gens) \ iterated, ro \in Orders(DOMAIN rules) :
              LET r == registerGenerator(genName, gens, rules,
                                         registry[cmd.markerRegistry], ro)
              IN  /\ registry' = [registry EXCEPT ![cmd.markerRegistry] = r.reg]
                  /\ iterated' = iterated \cup {genName}
                  /\ pc' = IF r.panicked THEN "panicked" ELSE pc
                  /\ exitCode' = IF r.panicked THEN 2 ELSE exitCode
    /\ chain' = <<>>
    /\ UNCHANGED <<dupKeys, heap, cmd, showVersion, helpLevel, whichLevel, args,
                   branch, ran, err, out, mark, failed, hlevel, hinfo, hres, tool>>

RegisterDefaults ==
    /\ pc = "applied"
    /\ iterated = DOMAIN GeneratorsOf(cmd, heap)
    /\ \E do \in Orders(DOMAIN OutputRulesOf(cmd, heap)) :
          LET r == registerDefaults(OutputRulesOf(cmd, heap),
                                    registry[cmd.markerRegistry], do)
          IN  /\ registry' = [registry EXCEPT ![cmd.markerRegistry] = r.reg]
              /\ pc' = IF r.panicked THEN "panicked" ELSE "registered"
              /\ exitCode' = IF r.panicked THEN 2 ELSE exitCode
    /\ chain' = <<>>
    /\ UNCHANGED <<dupKeys, heap, cmd, iterated, showVersion, helpLevel, whichLevel,
                   args, branch, ran, err, out, mark, failed, hlevel, hinfo, hres, tool>>

(***************************************************************************)
(* Help renderer                                                           *)
(***************************************************************************)
summaryHelp == 1

detailedHelp == 2

fullHelp == 3

jsonHelp == 4

\* One write to an io.Writer: the stream, what is written, and the category
\* docs it renders (fullDetail only matters for "details").
Write(stream, kind, fullDetail, body) ==
    [stream |-> stream, kind |-> kind, fullDetail |-> fullDetail, body |-> body]

NoError == [type |-> "nil", error |-> ""]

IOError == [type |-> "ioError", error |-> "write failed"]

\* Mutant: the loop does not skip the category with the empty name.
CategoryBlocks_KeepUnnamed(kind, fullDetail, helpInfo) ==
    [i \in 1..Len(helpInfo) |-> Write("stderr", kind, fullDetail, <<helpInfo[i]>>)]

\* The writes a `for _, cat := range helpInfo` loop makes: one block per
\* category whose name is not empty.
CategoryBlocks(kind, fullDetail, helpInfo) ==
    LET named == SelectSeq(helpInfo, LAMBDA cat : cat.Category # "")
    IN  [i \in 1..Len(named) |-> Write("stderr", kind, fullDetail, <<named[i]>>)]

\* Mutant: every level above fullHelp renders json (a capped counter).
LevelWrites_JsonAboveFull(level, helpInfo) ==
    CASE level >= jsonHelp -> <<Write("stdout", "json", FALSE, helpInfo)>>
      [] level \in {detailedHelp, fullHelp} ->
            CategoryBlocks("details", level = fullHelp, helpInfo)
      [] level = summaryHelp -> CategoryBlocks("summary", FALSE, helpInfo)
      [] OTHER -> <<>>

\* Mutant: the json document leaves out the category with the empty name.
LevelWrites_JsonNamedOnly(level, helpInfo) ==
    CASE level = jsonHelp ->
            <<Write("stdout", "json", FALSE,
                    SelectSeq(helpInfo, LAMBDA cat : cat.Category # ""))>>
      [] level \in {detailedHelp, fullHelp} ->
            CategoryBlocks("details", level = fullHelp, helpInfo)
      [] level = summaryHelp -> CategoryBlocks("summary", FALSE, helpInfo)
      [] OTHER -> <<>>

\* The writes helpForLevels makes when none fails.
LevelWrites(level, helpInfo) ==
    CASE level = jsonHelp -> <<Write("stdout", "json", FALSE, helpInfo)>>
      [] level \in {detailedHelp, fullHelp} ->
            CategoryBlocks("details", level = fullHelp, helpInfo)
      [] level = summaryHelp -> CategoryBlocks("summary", FALSE, helpInfo)
      [] OTHER -> <<>>

\* A handler's writes ws with the failAt-th of them failing (0, or past the
\* last: none fails): what got written and the error returned.
WriteAll(ws, failAt) ==
    IF failAt \in 1..Len(ws)
    THEN [out |-> SubSeq(ws, 1, failAt - 1), err |-> IOError]
    ELSE [out |-> ws, err |-> NoError]

helpForLevels(level, helpInfo, failAt) ==
    WriteAll(LevelWrites(level, helpInfo), failAt)

\* help.ByCategory: the registry's markers grouped by the category of their
\* help (no help: the empty category), ordered by category name.
CategoryOf(d) ==
    IF d.help = NoHelp \/ d.help[2] = "InputPaths" THEN ""
    ELSE IF d.help[2] \in Generators THEN "generators" ELSE "output"

ByCategory(reg) ==
    LET order   == <<"", "generators", "output">>
        present == SelectSeq(order, LAMBDA c : \E n \in DOMAIN reg : CategoryOf(reg[n]) = c)
    IN  [i \in 1..Len(present) |->
          [Category |-> present[i],
           Markers  |-> {n \in DOMAIN reg : CategoryOf(reg[n]) = present[i]}]]

\* Mutant: the usage function does not raise a zero counter to summaryHelp.
UsageFunc_KeepsZero(level, reg, failAt) ==
    LET usageText == Write("stderr", "usage", FALSE, <<>>)
        header    == Write("stderr", "options", FALSE, <<>>)
    IN  IF failAt = 1 THEN [out |-> <<>>, err |-> IOError, helpLevel |-> level]
        ELSE IF failAt = 2
             THEN [out |-> <<usageText>>, err |-> IOError, helpLevel |-> level]
             ELSE LET r == helpForLevels(level, ByCategory(reg),
                                         IF failAt = 0 THEN 0 ELSE failAt - 2)
                  IN  [out |-> <<usageText, header>> \o r.out, err |-> r.err,
                       helpLevel |-> level]

\* Mutant: the "Options" header is written to the primary stream.
UsageFunc_HeaderToStdout(level, reg, failAt) ==
    LET usageText == Write("stderr", "usage", FALSE, <<>>)
        header    == Write("stdout", "options", FALSE, <<>>)
        newLevel  == IF level = 0 THEN summaryHelp ELSE level
    IN  IF failAt = 1 THEN [out |-> <<>>, err |-> IOError, helpLevel |-> level]
        ELSE IF failAt = 2
             THEN [out |-> <<usageText>>, err |-> IOError, helpLevel |-> newLevel]
             ELSE LET r == helpForLevels(newLevel, ByCategory(reg),
                                         IF failAt = 0 THEN 0 ELSE failAt - 2)
                  IN  [out |-> <<usageText, header>> \o r.out, err |-> r.err,
                       helpLevel |-> newLevel]

\* The usage function cmd() installs: cobra's usage text, the "Options"
\* header, then the marker docs at helpLevel (summary when it is 0).
UsageFunc(level, reg, failAt) ==
    LET usageText == Write("stderr", "usage", FALSE, <<>>)
        header    == Write("stderr", "options", FALSE, <<>>)
        newLevel  == IF level = 0 THEN summaryHelp ELSE level
    IN  IF failAt = 1 THEN [out |-> <<>>, err |-> IOError, helpLevel |-> level]
        ELSE IF failAt = 2
             THEN [out |-> <<usageText>>, err |-> IOError, helpLevel |-> newLevel]
             ELSE LET r == helpForLevels(newLevel, ByCategory(reg),
                                         IF failAt = 0 THEN 0 ELSE failAt - 2)
                  IN  [out |-> <<usageText, header>> \o r.out, err |-> r.err,
                       helpLevel |-> newLevel]

\* help.ByCategory results of a registry this package did not fill: up to
\* MaxCats categories with distinct names, in any order.
CategoryDocs ==
    {[Category |-> c, Markers |-> {<<"marker", c>>}] : c \in {"", "c1", "c2"}}

HelpInfosUpTo(max) ==
    UNION {{f \in [1..n -> CategoryDocs] :
               \A i, j \in 1..n : i # j => f[i].Category # f[j].Category}
           : n \in 0..max}

HelpInfos == HelpInfosUpTo(MaxCats)

\* Writes one handler can make at most: the failing write is drawn from these.
WriteIndexes == 0..4

(***************************************************************************)
(* Command line: pflag's CountVarP adds one per occurrence of the flag.    *)
(***************************************************************************)
FlagWhichMarkers ==
    /\ pc = "registered"
    /\ whichLevel < MaxCount
    /\ whichLevel' = whichLevel + 1
    /\ UNCHANGED <<pc, chain, dupKeys, heap, registry, cmd, iterated, showVersion, helpLevel,
                   args, branch, ran, err, out, mark, failed, exitCode,
                   hlevel, hinfo, hres, tool>>

FlagDetailedHelp ==
    /\ pc = "registered"
    /\ helpLevel < MaxCount
    /\ helpLevel' = helpLevel + 1
    /\ UNCHANGED <<pc, chain, dupKeys, heap, registry, cmd, iterated, showVersion, whichLevel,
                   args, branch, ran, err, out, mark, failed, exitCode,
                   hlevel, hinfo, hres, tool>>

FlagVersion ==
    /\ pc = "registered"
    /\ ~showVersion
    /\ showVersion' = TRUE
    /\ UNCHANGED <<pc, chain, dupKeys, heap, registry, cmd, iterated, helpLevel, whichLevel,
                   args, branch, ran, err, out, mark, failed, exitCode,
                   hlevel, hinfo, hres, tool>>

(***************************************************************************)
(* The dispatcher: RunE of the cobra command cmd() builds.                 *)
(***************************************************************************)
ErrNoGenerators == [type |-> "errorString", error |-> "no generators specified"]

ErrOptions == [type |-> "optionsError", error |-> "unknown option"]

\* noUsageError{errors.New("not all generators ran successfully")}
ErrNotAllRan == [type |-> "noUsageError", error |-> "not all generators ran successfully"]

\* printMarkerDocs: genall.RegistryFromOptions may fail (optsFail); it
\* returns a registry of its own, filled by the generators the options
\* select, whose help.ByCategory result is helpInfo.
printMarkerDocs(level, optsFail, helpInfo, failAt) ==
    IF optsFail THEN [out |-> <<>>, err |-> ErrOptions]
    ELSE helpForLevels(level, helpInfo, failAt)

\* Mutant: the -h counter is tested before the version flag.
Dispatch_HelpFirst(version, hLevel, wLevel) ==
    IF hLevel > 0 THEN "help"
    ELSE IF version THEN "version"
    ELSE IF wLevel > 0 THEN "which"
    ELSE "run"

\* The four-way decision of RunE, first match wins.
Dispatch(version, hLevel, wLevel) ==
    IF version THEN "version"
    ELSE IF hLevel > 0 THEN "help"
    ELSE IF wLevel > 0 THEN "which"
    ELSE "run"

\* RunE.  optsFail: option resolution fails; selected: the generators the
\* options select; helpInfo: the marker docs of those generators; hadErrs:
\* what runtime.Run reports; failAt: the write that fails.
RunE(optsFail, selected, helpInfo, hadErrs, failAt) ==
    LET reg == registry[cmd.markerRegistry]
        br  == Dispatch(showVersion, helpLevel, whichLevel)
        use == UsageFunc(helpLevel, reg, failAt)
        doc == printMarkerDocs(whichLevel, optsFail, helpInfo, failAt)
    IN  /\ branch' = br
        /\ args' = [version |-> showVersion, help |-> helpLevel, which |-> whichLevel]
        /\ CASE br = "version" ->
                  /\ out' = out \o <<Write("stdout", "version", FALSE, <<>>)>>
                  /\ err' = NoError
                  /\ UNCHANGED <<helpLevel, ran>>
             [] br = "help" ->
                  /\ out' = out \o use.out
                  /\ err' = use.err
                  /\ helpLevel' = use.helpLevel
                  /\ UNCHANGED ran
             [] br = "which" ->
                  /\ out' = out \o doc.out
                  /\ err' = doc.err
                  /\ UNCHANGED <<helpLevel, ran>>
             [] br = "run" ->
                  /\ UNCHANGED <<out, helpLevel>>
                  /\ IF optsFail THEN err' = ErrOptions /\ UNCHANGED ran
                     ELSE IF selected = {} THEN err' = ErrNoGenerators /\ UNCHANGED ran
                     ELSE /\ ran' = selected
                          /\ err' = IF hadErrs THEN ErrNotAllRan ELSE NoError

\* cmd.Execute(): cobra calls RunE with the parsed flags.  Each input is
\* drawn only where the branch taken reads it.
Execute ==
    /\ pc = "registered"
    /\ LET br == Dispatch(showVersion, helpLevel, whichLevel)
       IN  \E optsFail \in (IF br \in {"which", "run"} THEN BOOLEAN ELSE {FALSE}),
              hadErrs \in (IF br = "run" THEN BOOLEAN ELSE {FALSE}),
              failAt \in (IF br \in {"help", "which"} THEN WriteIndexes ELSE {0}),
              selected \in (IF br = "run" THEN SUBSET (DOMAIN GeneratorsOf(cmd, heap))
                                          ELSE {{}}),
              helpInfo \in (IF br = "which" THEN HelpInfosUpTo(1) ELSE {<<>>}) :
              RunE(optsFail, selected, helpInfo, hadErrs, failAt)
    /\ mark' = Len(out')
    /\ pc' = "executed"
    /\ UNCHANGED <<chain, dupKeys, heap, registry, cmd, iterated, showVersion, whichLevel,
                   failed, exitCode, hlevel, hinfo, hres, tool>>

(***************************************************************************)
(* Run, after cmd.Execute() returned                                       *)
(***************************************************************************)
\* var noUsageErr noUsageError: the zero value, wrapping a nil error.
noUsageErr == [type |-> "noUsageError", error |-> "nil"]

\* Mutant: every error counts as usage-suppressed.
ErrorsIs_Always(e, target) == TRUE

\* errors.Is(err, target): neither noUsageError nor the wrapped errors have an
\* Is or an Unwrap method, so it is err == target on the comparable values.
ErrorsIs(e, target) == e = target

Hint == Write("stderr", "hint", FALSE, <<>>)

\* Mutant: a failing cmd.Usage() is not a panic; Run goes on to os.Exit(1).
HandleError_ExitOnUsageFailure(failAt, hintFail) ==
    IF err = NoError
    THEN /\ pc' = "returned"
         /\ exitCode' = 0
         /\ UNCHANGED <<out, helpLevel, failed>>
    ELSE LET noUsage == ErrorsIs(err, noUsageErr)
             use     == IF noUsage
                        THEN [out |-> <<>>, err |-> NoError, helpLevel |-> helpLevel]
                        ELSE UsageFunc(helpLevel, registry[cmd.markerRegistry], failAt)
         IN  /\ helpLevel' = use.helpLevel
             /\ out' = out \o use.out
             /\ failed' = IF use.err # NoError THEN "usage" ELSE "none"
             /\ pc' = "exited"
             /\ exitCode' = 1

\* The body of `if err := cmd.Execute(); err != nil { ... }`, and the return
\* of Run when there was no error.
HandleError(failAt, hintFail) ==
    IF err = NoError
    THEN /\ pc' = "returned"
         /\ exitCode' = 0
         /\ UNCHANGED <<out, helpLevel, failed>>
    ELSE LET noUsage == ErrorsIs(err, noUsageErr)
             use     == IF noUsage
                        THEN [out |-> <<>>, err |-> NoError, helpLevel |-> helpLevel]
                        ELSE UsageFunc(helpLevel, registry[cmd.markerRegistry], failAt)
         IN  /\ helpLevel' = use.helpLevel
             /\ IF use.err # NoError
                THEN /\ out' = out \o use.out
                     /\ failed' = "usage"
                     /\ pc' = "panicked"
                     /\ exitCode' = 2
                ELSE /\ out' = out \o use.out \o (IF hintFail THEN <<>> ELSE <<Hint>>)
                     /\ failed' = IF hintFail THEN "hint" ELSE "none"
                     /\ pc' = "exited"
                     /\ exitCode' = 1

RunFinish ==
    /\ pc = "executed"
    /\ \E failAt \in WriteIndexes, hintFail \in BOOLEAN : HandleError(failAt, hintFail)
    /\ UNCHANGED <<chain, dupKeys, heap, registry, cmd, iterated, showVersion, whichLevel,
                   args, branch, ran, err, mark, hlevel, hinfo, hres, tool>>

(***************************************************************************)
(* The program: cmd := New(..)...Apply(); cmd.Run()                        *)
(***************************************************************************)
NoResult == [out |-> <<>>, err |-> NoError]

\* The scaffolding tool has not been started.
NoTool == [pc |-> "off", initCmd |-> <<>>, initGenerators |-> <<>>, cmd |-> <<>>,
           generators |-> <<>>, err |-> "nil", called |-> <<>>]

Init ==
    /\ pc = "start"
    /\ chain = <<>>
    /\ dupKeys = {}
    /\ heap = CallerHeap
    /\ registry = EmptyMap
    /\ cmd = NoCmd
    /\ iterated = {}
    /\ showVersion = FALSE
    /\ helpLevel = 0
    /\ whichLevel = 0
    /\ args = [version |-> FALSE, help |-> 0, which |-> 0]
    /\ branch = "none"
    /\ ran = {}
    /\ err = NoError
    /\ out = <<>>
    /\ mark = 0
    /\ failed = "none"
    /\ exitCode = -1
    /\ hlevel = 0
    /\ hinfo = <<>>
    /\ hres = NoResult
    /\ tool = NoTool

Next ==
    \/ Apply
    \/ RegisterGenerator
    \/ RegisterDefaults
    \/ FlagWhichMarkers
    \/ FlagDetailedHelp
    \/ FlagVersion
    \/ Execute
    \/ RunFinish

Spec == Init /\ [][Next]_vars

(***************************************************************************)
(* The help renderer on its own: the -w counter, then helpForLevels on any *)
(* categorized marker info.                                                *)
(***************************************************************************)
InitHelp ==
    /\ Init!2 /\ Init!3 /\ Init!4 /\ Init!5 /\ Init!6 /\ Init!7 /\ Init!8
    /\ Init!9 /\ Init!10 /\ Init!11 /\ Init!12 /\ Init!13 /\ Init!14
    /\ Init!15 /\ Init!16 /\ Init!17 /\ Init!18 /\ Init!19
    /\ Init!22
    /\ pc = "flags"
    /\ hinfo \in HelpInfos
    /\ hres = NoResult

CountFlag ==
    /\ pc = "flags"
    /\ hlevel < MaxCount
    /\ hlevel' = hlevel + 1
    /\ UNCHANGED <<pc, chain, dupKeys, heap, registry, cmd, iterated, showVersion, helpLevel,
                   whichLevel, args, branch, ran, err, out, mark, failed, exitCode,
                   hinfo, hres, tool>>

Render ==
    /\ pc = "flags"
    /\ hlevel > 0
    /\ \E failAt \in WriteIndexes : hres' = helpForLevels(hlevel, hinfo, failAt)
    /\ pc' = "rendered"
    /\ UNCHANGED <<chain, dupKeys, heap, registry, cmd, iterated, showVersion, helpLevel,
                   whichLevel, args, branch, ran, err, out, mark, failed, exitCode,
                   hlevel, hinfo, tool>>

NextHelp == CountFlag \/ Render

SpecHelp == InitHelp /\ [][NextHelp]_vars

(***************************************************************************)
(* The scaffolding tool (src/cmd/genutils/main.go).  A flag value is the   *)
(* sequence of its characters.                                             *)
(***************************************************************************)
\* Longest value of the --generators flag.
MaxFlagLen == 4

\* Characters of a flag value: a letter and the two separators.
FlagChars == {"g", ":", ","}

RECURSIVE StringsUpTo(_)
StringsUpTo(n) ==
    IF n = 0 THEN {<<>>}
    ELSE LET prev == StringsUpTo(n - 1)
         IN  prev \cup {Append(x, c) : x \in {y \in prev : Len(y) = n - 1}, c \in FlagChars}

\* Values of --cmd and --generators ("" when the flag is not given).
InitCmdArgs == {<<>>, <<"g">>}

InitGeneratorsArgs == StringsUpTo(MaxFlagLen)

\* Sets of paths for which os.Stat does not answer "does not exist".
ExistingPaths == {{}, {<<"g">>}}

\* strings.Split(s, sep) for a one-character sep: the pieces between the
\* separators; one piece, s itself, when s holds no separator (also for "").
RECURSIVE Split(_, _)
Split(s, sep) ==
    IF \A i \in 1..Len(s) : s[i] # sep THEN <<s>>
    ELSE LET i == CHOOSE k \in 1..Len(s) :
                      s[k] = sep /\ \A j \in 1..(k - 1) : s[j] # sep
         IN  <<SubSeq(s, 1, i - 1)>> \o Split(SubSeq(s, i + 1, Len(s)), sep)

\* parseCmdAndValidate: nil for "", else the cmd under cmd/<s>; never an error.
parseCmdAndValidate(s) ==
    IF s = <<>> THEN [cmd |-> <<>>, err |-> "nil"]
    ELSE [cmd |-> <<[name |-> s, path |-> <<"cmd/">> \o s]>>, err |-> "nil"]

\* fileShouldNotExist(path)
fileShouldNotExist(path, existing) ==
    IF path \in existing THEN "file already exist" ELSE "nil"

\* The loop of parseGeneratorsAndValidate from input i on, generators so far
\* in acc.
RECURSIVE ParseInputs(_, _, _, _)
ParseInputs(inputs, i, acc, existing) ==
    IF i > Len(inputs) THEN [generators |-> acc, err |-> "nil"]
    ELSE LET sl == Split(inputs[i], ":")
         IN  IF Len(sl) # 2
             THEN [generators |-> <<>>, err |-> "expect 2 sub-arguments"]
             ELSE IF sl[1] = <<>>
             THEN [generators |-> <<>>, err |-> "name cannot be empty"]
             ELSE IF sl[2] = <<>>
             THEN [generators |-> <<>>, err |-> "path cannot be empty"]
             ELSE IF fileShouldNotExist(sl[2], existing) # "nil"
             THEN [generators |-> <<>>, err |-> fileShouldNotExist(sl[2], existing)]
             ELSE ParseInputs(inputs, i + 1,
                              Append(acc, [name |-> sl[1], path |-> sl[2]]), existing)

parseGeneratorsAndValidate(s, existing) ==
    LET r == ParseInputs(Split(s, ","), 1, <<>>, existing)
    IN  IF r.err # "nil" THEN r
        ELSE IF Len(r.generators) = 0
             THEN [generators |-> <<>>, err |-> "expected at least one generator"]
             ELSE r

\* The errors parseGeneratorsAndValidate joins with newInvalidFlagInputErr.
FlagValidationErrors ==
    {"expect 2 sub-arguments", "name cannot be empty", "path cannot be empty",
     "file already exist", "expected at least one generator"}

\* The switch of runE: the generate functions it calls, in order.  fails is
\* the number of the call that returns an error (0: none).
runESwitch(cmdFlag, generators, fails) ==
    LET calls == IF cmdFlag # <<>> /\ Len(generators) = 0 THEN <<"generateCmd">>
                 ELSE IF cmdFlag # <<>>
                      THEN <<"generateGeneratorWithCmdName", "generateCmdWithGenerators">>
                      ELSE <<"generateGenerator">>
    IN  IF fails \in 1..Len(calls)
        THEN [called |-> SubSeq(calls, 1, fails), err |-> "generate failed"]
        ELSE [called |-> calls, err |-> "nil"]

\* main: cobra parses the flags into *initCmd and *initGenerators.
ToolStart ==
    /\ tool.pc = "off"
    /\ \E c \in InitCmdArgs, g \in InitGeneratorsArgs :
          tool' = [NoTool EXCEPT !.pc = "runE", !.initCmd = c, !.initGenerators = g]
    /\ UNCHANGED <<pc, chain, dupKeys, heap, registry, cmd, iterated, showVersion,
                   helpLevel, whichLevel, args, branch, ran, err, out, mark, failed,
                   exitCode, hlevel, hinfo, hres>>

\* runE: cmd, err := parseCmdAndValidate(*initCmd)
ToolParseCmd ==
    /\ tool.pc = "runE"
    /\ LET r == parseCmdAndValidate(tool.initCmd)
       IN  tool' = IF r.err # "nil"
                   THEN [tool EXCEPT !.pc = "done", !.err = r.err]
                   ELSE [tool EXCEPT !.pc = "cmdParsed", !.cmd = r.cmd]
    /\ UNCHANGED <<pc, chain, dupKeys, heap, registry, cmd, iterated, showVersion,
                   helpLevel, whichLevel, args, branch, ran, err, out, mark, failed,
                   exitCode, hlevel, hinfo, hres>>

\* runE: generators, err := parseGeneratorsAndValidate(*initGenerators)
ToolParseGenerators ==
    /\ tool.pc = "cmdParsed"
    /\ \E existing \in ExistingPaths :
          LET r == parseGeneratorsAndValidate(tool.initGenerators, existing)
          IN  tool' = IF r.err # "nil"
                      THEN [tool EXCEPT !.pc = "done", !.err = r.err]
                      ELSE [tool EXCEPT !.pc = "flagsParsed", !.generators = r.generators]
    /\ UNCHANGED <<pc, chain, dupKeys, heap, registry, cmd, iterated, showVersion,
                   helpLevel, whichLevel, args, branch, ran, err, out, mark, failed,
                   exitCode, hlevel, hinfo, hres>>

\* runE: the switch, and its return.
ToolGenerate ==
    /\ tool.pc = "flagsParsed"
    /\ \E fails \in 0..2 :
          LET r == runESwitch(tool.cmd, tool.generators, fails)
          IN  tool' = [tool EXCEPT !.pc = "done", !.called = r.called, !.err = r.err]
    /\ UNCHANGED <<pc, chain, dupKeys, heap, registry, cmd, iterated, showVersion,
                   helpLevel, whichLevel, args, branch, ran, err, out, mark, failed,
                   exitCode, hlevel, hinfo, hres>>

NextTool == ToolStart \/ ToolParseCmd \/ ToolParseGenerators \/ ToolGenerate

SpecTool == Init /\ [][NextTool]_vars

(***************************************************************************)
(* register called again: a second time on the same Cmd (as a second       *)
(* cmd.Run() does first), or on the Cmd of a second Apply of the Builder.  *)
(***************************************************************************)
\* register(cmd) once more on the Cmd that is already registered.
RegisterAgain ==
    /\ pc = "registered"
    /\ cmd.markerRegistry = <<"registry", 1>>
    /\ pc' = "applied"
    /\ iterated' = {}
    /\ UNCHANGED <<chain, dupKeys, heap, registry, cmd, showVersion, helpLevel,
                   whichLevel, args, branch, ran, err, out, mark, failed, exitCode,
                   hlevel, hinfo, hres, tool>>

\* cmd2 := b.Apply() on the Builder b the first Cmd came from (any Builder
\* that gives this Cmd and heap), then register(cmd2) by the register steps.
ApplyAgain ==
    /\ pc = "registered"
    /\ cmd.markerRegistry = <<"registry", 1>>
    /\ \E b \in Builders :
          /\ Call(b, CallerHeap, EmptyMap, 1).g = cmd
          /\ Call(b, CallerHeap, EmptyMap, 1).h = heap
          /\ LET s == Call(b, heap, registry, 2)
             IN  /\ cmd' = s.g
                 /\ heap' = s.h
                 /\ registry' = s.r
    /\ pc' = "applied"
    /\ iterated' = {}
    /\ UNCHANGED <<chain, dupKeys, showVersion, helpLevel, whichLevel, args, branch,
                   ran, err, out, mark, failed, exitCode, hlevel, hinfo, hres, tool>>

NextTwice ==
    \/ Apply
    \/ RegisterGenerator
    \/ RegisterDefaults
    \/ RegisterAgain
    \/ ApplyAgain

SpecTwice == Init /\ [][NextTwice]_vars

(***************************************************************************)
(* Properties                                                              *)
(***************************************************************************)
\* register has returned normally (Run went on to build the dispatcher).
RegisterReturned == pc \in {"registered", "executed", "exited", "returned"}

\* Run ended, by os.Exit or by a panic of its error handling.
RunEnded == pc = "exited" \/ (pc = "panicked" /\ branch # "none")

\* What Run wrote after cmd.Execute() returned.
HandlerOut == SubSeq(out, mark + 1, Len(out))

\* What RunE wrote.
DispatchOut == SubSeq(out, 1, mark)

Kinds(ws) == {ws[i].kind : i \in 1..Len(ws)}

\* The marker names the claims derive from a Configuration.
DerivedNames(gens, rules) ==
    (DOMAIN gens)
    \cup {<<"output">> \o g \o r : g \in DOMAIN gens, r \in DOMAIN rules}
    \cup {<<"output">> \o r : r \in DOMAIN rules}

\* No two derivations give the same name, and none gives an engine option.
NoCollision(gens, rules) ==
    /\ Cardinality(DerivedNames(gens, rules))
         = Cardinality(DOMAIN gens)
           + Cardinality(DOMAIN gens) * Cardinality(DOMAIN rules)
           + Cardinality(DOMAIN rules)
    /\ DerivedNames(gens, rules) \cap OptionsMarkers = {}

\* C1: for a Configuration whose derived names do not collide, once register
\* has returned the registry holds exactly the markers g (from generator g),
\* "output:g:r" and "output:r" (from rule r) for all generator keys g and
\* output-rule keys r, plus the engine's option markers, and nothing else.
C1_RegistryHoldsExactlyDerivedMarkers ==
    LET gens  == GeneratorsOf(cmd, heap)
        rules == OutputRulesOf(cmd, heap)
        reg   == registry[cmd.markerRegistry]
    IN  (RegisterReturned /\ NoCollision(gens, rules)) =>
          /\ DOMAIN reg = DerivedNames(gens, rules) \cup OptionsMarkers
          /\ \A g \in DOMAIN gens : reg[g].obj = gens[g]
          /\ \A g \in DOMAIN gens, r \in DOMAIN rules :
                reg[<<"output">> \o g \o r].obj = rules[r]
          /\ \A r \in DOMAIN rules : reg[<<"output">> \o r].obj = rules[r]

C1_Witness ==
    /\ pc = "registered"
    /\ Cardinality(DOMAIN GeneratorsOf(cmd, heap)) >= 2
    /\ Cardinality(DOMAIN OutputRulesOf(cmd, heap)) >= 3
    /\ NoCollision(GeneratorsOf(cmd, heap), OutputRulesOf(cmd, heap))

\* The last call of method op with key k on Builder b.
LastCall(b, op, k) ==
    CHOOSE i \in 1..Len(b) :
        /\ b[i].op = op /\ b[i].key = k
        /\ \A j \in (i + 1)..Len(b) : ~(b[j].op = op /\ b[j].key = k)

HasCall(b, op, k) == \E i \in 1..Len(b) : b[i].op = op /\ b[i].key = k

\* C2 as stated: a Builder that passed the same key to WithGenerator twice
\* makes Run abort or fail before any generator executes, and Run never
\* succeeds.
C2_DuplicateGeneratorAborts ==
    dupKeys # {} => (ran = {} /\ pc # "returned")

\* C2 as amended: the second WithGenerator call with a key overwrites the
\* first.  The frozen Cmd holds, under that key, the generator passed last
\* (unless a later WithGenerators replaced the map); register does not abort
\* because of it, registers one marker for the key, derived from the
\* generator the Cmd holds, and Run goes on to the dispatcher.
C2_DuplicateGeneratorOverwrites ==
    LET gens  == GeneratorsOf(cmd, heap)
        rules == OutputRulesOf(cmd, heap)
        reg   == registry[cmd.markerRegistry]
    IN  /\ (pc = "applied" /\ chain # <<>>) =>
             \A k \in dupKeys :
                (\A j \in LastCall(chain, "WithGenerator", k)..Len(chain) :
                     chain[j].op # "WithGenerators")
                => /\ k \in DOMAIN gens
                   /\ gens[k] = chain[LastCall(chain, "WithGenerator", k)].val
        /\ (dupKeys # {} /\ pc # "start" /\ NoCollision(gens, rules)) =>
             /\ ~(pc = "panicked" /\ branch = "none")
             /\ RegisterReturned =>
                  \A k \in dupKeys \cap DOMAIN gens : reg[k].obj = gens[k]

C2_Witness ==
    /\ dupKeys # {}
    /\ pc = "returned"
    /\ ran = dupKeys

\* C3 as stated: when runtime.Run reported errors, Run recognises the error
\* as usage-suppressed: it writes no usage text, writes the hint line and
\* exits with a non-zero status (no diagnostic write failing).
C3_AggregateFailureSuppressesUsage ==
    (RunEnded /\ err = ErrNotAllRan /\ failed = "none") =>
        /\ "usage" \notin Kinds(HandlerOut)
        /\ HandlerOut = <<Hint>>
        /\ exitCode > 0

\* C4 as stated: for every error of the dispatcher that is not a
\* suppressed-usage error, Run prints the usage text, then the hint line,
\* then ends the process with a non-zero status.
C4_ErrorPrintsUsageThenHint ==
    (RunEnded /\ err # NoError /\ err.type # "noUsageError") =>
        LET h == HandlerOut
        IN  /\ Len(h) >= 2
            /\ h[1].kind = "usage"
            /\ h[Len(h)] = Hint
            /\ "hint" \notin Kinds(SubSeq(h, 1, Len(h) - 1))
            /\ exitCode > 0

\* C4 as amended: for such an error Run first prints the usage text; when
\* that succeeds it prints the hint line last and exits with status 1
\* (status 1 without the hint line when writing the hint fails); when
\* printing the usage fails Run panics: no hint line, non-zero status.
C4_ErrorPrintsUsageThenHintUnlessWriteFails ==
    (RunEnded /\ err # NoError /\ err.type # "noUsageError") =>
        LET h == HandlerOut
        IN  /\ failed = "none" =>
                 /\ Len(h) >= 3
                 /\ h[1].kind = "usage" /\ h[2].kind = "options"
                 /\ h[Len(h)] = Hint
                 /\ "hint" \notin Kinds(SubSeq(h, 1, Len(h) - 1))
                 /\ pc = "exited" /\ exitCode = 1
            /\ failed = "hint" =>
                 /\ Len(h) >= 2
                 /\ h[1].kind = "usage" /\ h[2].kind = "options"
                 /\ "hint" \notin Kinds(h)
                 /\ pc = "exited" /\ exitCode = 1
            /\ failed = "usage" =>
                 /\ "hint" \notin Kinds(h)
                 /\ pc = "panicked" /\ exitCode > 0

C4_Witness ==
    /\ pc = "exited"
    /\ err = ErrNoGenerators
    /\ failed = "none"
    /\ HandlerOut[Len(HandlerOut)] = Hint

\* C5: RunE takes exactly one of four branches, in strict priority: version
\* flag set -> version only; else -h counter > 0 -> usage only; else -w
\* counter > 0 -> marker docs only; else the generators.  Generators execute
\* only with the version flag unset and both counters 0, and with the
\* version flag set nothing but the version is ever written.
C5_DispatchPriority ==
    branch # "none" =>
        /\ branch \in {"version", "help", "which", "run"}
        /\ branch = "version" <=> args.version
        /\ branch = "help" <=> (~args.version /\ args.help > 0)
        /\ branch = "which" <=> (~args.version /\ args.help = 0 /\ args.which > 0)
        /\ branch = "run" <=> (~args.version /\ args.help = 0 /\ args.which = 0)
        /\ args.version =>
             /\ out = <<Write("stdout", "version", FALSE, <<>>)>>
             /\ err = NoError /\ ran = {}
        /\ branch = "help" =>
             /\ Kinds(DispatchOut) \subseteq {"usage", "options", "json", "details", "summary"}
             /\ ran = {}
        /\ branch = "which" =>
             /\ Kinds(DispatchOut) \subseteq {"json", "details", "summary"}
             /\ ran = {}
        /\ branch = "run" => DispatchOut = <<>>
        /\ ran # {} => (~args.version /\ args.help = 0 /\ args.which = 0)

C5_Witness ==
    /\ pc = "returned"
    /\ args.version /\ args.help > 0 /\ args.which > 0
    /\ out = <<Write("stdout", "version", FALSE, <<>>)>>

\* The state right after Apply returned.
JustApplied == pc = "applied" /\ chain # <<>>

\* C6 as stated: after Apply, when the chain calls WithOutputRules, the output
\* rules of the Cmd are exactly the keys of the map m its last WithOutputRules
\* call was given (as the caller filled it) plus the keys of the
\* WithOutputRule calls after that call; whatever came before is discarded.
\* The same for WithGenerators and WithGenerator.
C6_WholesaleReplaceDiscardsEarlier ==
    JustApplied =>
        /\ HasCall(chain, "WithOutputRules", <<>>) =>
             LET j == LastCall(chain, "WithOutputRules", <<>>)
             IN  DOMAIN OutputRulesOf(cmd, heap)
                   = (DOMAIN CallerHeap[chain[j].val])
                     \cup {chain[i].key : i \in {x \in (j + 1)..Len(chain) :
                                                   chain[x].op = "WithOutputRule"}}
        /\ HasCall(chain, "WithGenerators", <<>>) =>
             LET j == LastCall(chain, "WithGenerators", <<>>)
             IN  DOMAIN GeneratorsOf(cmd, heap)
                   = (DOMAIN CallerHeap[chain[j].val])
                     \cup {chain[i].key : i \in {x \in (j + 1)..Len(chain) :
                                                   chain[x].op = "WithGenerator"}}

\* C7 as stated: Builder methods never mutate in place: after Apply every map
\* the caller passed to WithGenerators or WithOutputRules is as the caller
\* filled it.
C7_CallerMapsUnchanged ==
    \A a \in DOMAIN CallerHeap : heap[a] = CallerHeap[a]

\* The contents of the map at address a after the chain b ran from call i on:
\* m, overlaid with the entries the add calls put while the Cmd's field
\* pointed at a (cur is where it points before call i).
RECURSIVE Overlay(_, _, _, _, _, _, _)
Overlay(b, i, a, cur, m, addOp, setOp) ==
    IF i > Len(b) THEN m
    ELSE IF b[i].op = setOp THEN Overlay(b, i + 1, a, b[i].val, m, addOp, setOp)
    ELSE IF b[i].op = addOp /\ cur = a
         THEN Overlay(b, i + 1, a, cur,
                      [k \in (DOMAIN m) \cup {b[i].key} |->
                          IF k = b[i].key THEN b[i].val ELSE m[k]],
                      addOp, setOp)
         ELSE Overlay(b, i + 1, a, cur, m, addOp, setOp)

\* C8: Apply returns the Cmd that the chain's calls give when applied one by
\* one, in call order, to the initial value of New (the given name, empty
\* description and helper, no generators, the output rules "dir" and
\* "stdout", an empty registry), each call changing only its own field: the
\* last WithDescription / WithHelper / WithGenerators / WithOutputRules call
\* decides its field, and every map holds what it held before plus the
\* entries added while the field pointed at it.  Before Apply nothing has
\* changed, and without a WithOutputRules call "dir" and "stdout" are output
\* rules.
C8_ApplyFoldsCallsInOrder ==
    /\ pc = "start" => (heap = CallerHeap /\ registry = EmptyMap /\ cmd = NoCmd)
    /\ JustApplied =>
         LET newGens  == CHOOSE a \in (DOMAIN heap) \ DOMAIN CallerHeap : a[1] = "generators"
             newRules == CHOOSE a \in (DOMAIN heap) \ DOMAIN CallerHeap : a[1] = "outputRules"
             defaults == [k \in {<<"dir">>, <<"stdout">>} |->
                            IF k = <<"dir">> THEN "OutputToDirectory" ELSE "OutputToStdout"]
             before(a) == IF a \in DOMAIN CallerHeap THEN CallerHeap[a]
                          ELSE IF a = newGens THEN <<>> ELSE defaults
         IN  /\ cmd.name = chain[1].val
             /\ cmd.description =
                  IF HasCall(chain, "WithDescription", <<>>)
                  THEN chain[LastCall(chain, "WithDescription", <<>>)].val ELSE ""
             /\ cmd.helper =
                  IF HasCall(chain, "WithHelper", <<>>)
                  THEN chain[LastCall(chain, "WithHelper", <<>>)].val ELSE ""
             /\ cmd.generators =
                  IF HasCall(chain, "WithGenerators", <<>>)
                  THEN chain[LastCall(chain, "WithGenerators", <<>>)].val ELSE newGens
             /\ cmd.outputRules =
                  IF HasCall(chain, "WithOutputRules", <<>>)
                  THEN chain[LastCall(chain, "WithOutputRules", <<>>)].val ELSE newRules
             /\ registry[cmd.markerRegistry] = <<>>
             /\ DOMAIN heap = (DOMAIN CallerHeap) \cup {newGens, newRules}
             /\ \A a \in DOMAIN heap :
                  heap[a] = IF a[1] \in {"generators", "gm"}
                            THEN Overlay(chain, 2, a, newGens, before(a),
                                         "WithGenerator", "WithGenerators")
                            ELSE Overlay(chain, 2, a, newRules, before(a),
                                         "WithOutputRule", "WithOutputRules")
             /\ ~HasCall(chain, "WithOutputRules", <<>>) =>
                  {<<"dir">>, <<"stdout">>} \subseteq DOMAIN OutputRulesOf(cmd, heap)

C8_Witness ==
    /\ JustApplied
    /\ Len(chain) = 4
    /\ chain[2].op = "WithGenerator" /\ chain[3].op = "WithDescription"
    /\ chain[4].op = "WithOutputRule"
    /\ DOMAIN OutputRulesOf(cmd, heap) = {<<"dir">>, <<"stdout">>, <<"x">>}

\* The categories of helpInfo whose name is not empty, in order.
RECURSIVE NamedCategories(_)
NamedCategories(info) ==
    IF info = <<>> THEN <<>>
    ELSE IF Head(info).Category = "" THEN NamedCategories(Tail(info))
         ELSE <<Head(info)>> \o NamedCategories(Tail(info))

IsPrefix(p, q) == Len(p) <= Len(q) /\ p = SubSeq(q, 1, Len(p))

\* C9: helpForLevels renders level 1 as summary, 2 as detailed, 3 as full and
\* 4 as json: level 4 writes exactly one structured document of the whole
\* help info to the main stream; levels 1 to 3 write exactly one block per
\* category with a non-empty name, in the order of the help info, to the
\* error stream (summary blocks at 1, details blocks at 2 and 3, with full
\* detail only at 3).  When a write fails the error is returned and only the
\* blocks before it were written.
C9_LevelsSelectRendering ==
    (pc = "rendered" /\ hlevel \in 1..4) =>
        LET named    == NamedCategories(hinfo)
            expected ==
                IF hlevel = 4
                THEN <<[stream |-> "stdout", kind |-> "json", fullDetail |-> FALSE,
                        body |-> hinfo]>>
                ELSE [i \in 1..Len(named) |->
                        [stream |-> "stderr",
                         kind |-> IF hlevel = 1 THEN "summary" ELSE "details",
                         fullDetail |-> (hlevel = 3),
                         body |-> <<named[i]>>]]
        IN  IF hres.err = NoError THEN hres.out = expected
            ELSE IsPrefix(hres.out, expected) /\ Len(hres.out) < Len(expected)

C9_Witness ==
    /\ pc = "rendered"
    /\ hlevel = 3
    /\ Len(hinfo) = 2 /\ hinfo[1].Category = "" /\ hinfo[2].Category # ""
    /\ hres.err = NoError
    /\ Len(hres.out) = 1 /\ hres.out[1].fullDetail /\ hres.out[1].body = <<hinfo[2]>>

\* C10 as stated: the level is the number of repetitions of the flag capped
\* at 4: more than 4 repetitions render as level 4 (json).
C10_LevelCappedAtJson ==
    (pc = "rendered" /\ hres.err = NoError /\ hlevel > 4) =>
        hres.out = <<Write("stdout", "json", FALSE, hinfo)>>

\* C10 as amended: the level is the number of repetitions of the flag, not
\* capped: 1 to 4 repetitions render as summary, detailed, full and json, and
\* more than 4 repetitions give a level above 4, at which helpForLevels
\* writes nothing and returns no error.
C10_LevelNotCapped ==
    pc = "rendered" =>
        /\ hlevel > 4 => (hres.out = <<>> /\ hres.err = NoError)
        /\ (hlevel = 4 /\ hres.err = NoError) => Kinds(hres.out) = {"json"}
        /\ (hlevel \in 1..3 /\ hres.err = NoError) =>
             /\ Len(hres.out) = Len(NamedCategories(hinfo))
             /\ Kinds(hres.out) \subseteq {IF hlevel = 1 THEN "summary" ELSE "details"}

C10_Witness ==
    /\ pc = "rendered"
    /\ hlevel = 5
    /\ NamedCategories(hinfo) # <<>>
    /\ hres.out = <<>>

\* C13 as stated: the scaffolding tool run with only --cmd <CMD_NAME> (the
\* --generators flag left empty) reaches generateCmd for that cmd and returns
\* its result, without a flag-validation error.
C13_CmdAloneInitializesCmd ==
    (tool.pc = "done" /\ tool.initCmd # <<>> /\ tool.initGenerators = <<>>) =>
        /\ tool.err \notin FlagValidationErrors
        /\ tool.called = <<"generateCmd">>

\* C11 as stated: the exit status is 0 on every success path and exactly 1 on
\* every failure path (registration error and I/O error while printing the
\* usage text or the hint line included).
C11_ExitZeroOrOne ==
    pc \in {"returned", "exited", "panicked"} =>
        exitCode = (IF branch # "none" /\ err = NoError THEN 0 ELSE 1)

\* C11 as amended: the exit status is 0 exactly when the dispatcher returned
\* no error (version, help, marker listing, successful generator run).  It is
\* 1 when the dispatcher returned an error and Run's error handling reached
\* os.Exit(1): usage error, aggregate generator failure, failure to write the
\* hint line.  It is 2, the status of a Go panic, when register aborts and
\* when printing the usage text in Run's error handling fails.
C11_ExitZeroOneOrPanic ==
    /\ pc \in {"start", "applied", "registered", "executed"} => exitCode = -1
    /\ pc = "returned" => (exitCode = 0 /\ err = NoError /\ branch # "none")
    /\ pc = "exited" => (exitCode = 1 /\ err # NoError /\ failed \in {"none", "hint"})
    /\ pc = "panicked" =>
         /\ exitCode = 2
         /\ (branch = "none" /\ failed = "none") \/ (err # NoError /\ failed = "usage")
    /\ (RunEnded \/ pc = "returned") =>
         /\ err = NoError => pc = "returned"
         /\ failed = "usage" => pc = "panicked"
         /\ failed = "hint" => pc = "exited"

C11_Witness ==
    /\ pc = "panicked"
    /\ exitCode = 2
    /\ err = ErrNoGenerators
    /\ failed = "usage"

\* C12: on every path of Run the streams are kept apart: the version text
\* and the json marker document are written only to the primary stream
\* (stdout); the usage text with its options header, the summary and details
\* blocks of levels 1 to 3 and the hint line only to the diagnostic stream
\* (stderr).  A marker listing at levels 1 to 3 writes nothing to stdout and
\* a json document never goes to stderr.
C12_StreamsKeptApart ==
    /\ \A i \in 1..Len(out) :
          /\ out[i].kind \in {"version", "json", "usage", "options", "summary",
                              "details", "hint"}
          /\ out[i].kind \in {"version", "json"} => out[i].stream = "stdout"
          /\ out[i].kind \in {"usage", "options", "summary", "details", "hint"}
                => out[i].stream = "stderr"
    /\ (branch = "which" /\ args.which \in 1..3) =>
          \A i \in 1..mark : out[i].stream = "stderr"

C12_Witness ==
    /\ pc = "exited"
    /\ \E i, j, k \in 1..Len(out) :
          /\ i < j /\ j < k
          /\ out[i].kind = "usage" /\ out[i].stream = "stderr"
          /\ out[j].kind = "json" /\ out[j].stream = "stdout"
          /\ out[k].kind = "hint" /\ out[k].stream = "stderr"

\* One fixed iteration order of a map with key set S.
FixedOrder(S) == CHOOSE f \in Orders(S) : TRUE

\* register run to its end with both maps iterated in their fixed order,
\* from generator i of genOrder on.
RECURSIVE RegisterInFixedOrder(_, _, _, _, _)
RegisterInFixedOrder(genOrder, i, gens, rules, reg) ==
    IF i > Len(genOrder) THEN registerDefaults(rules, reg, FixedOrder(DOMAIN rules))
    ELSE LET r == registerGenerator(genOrder[i], gens, rules, reg,
                                    FixedOrder(DOMAIN rules))
         IN  IF r.panicked THEN r
             ELSE RegisterInFixedOrder(genOrder, i + 1, gens, rules, r.reg)

\* C14: the outcome of register does not depend on the order in which the two
\* maps are iterated: whatever orders the generator loop, each inner rule loop
\* and the default loop take, register returns exactly when it returns under
\* one fixed order, and then with the same registry (names, plugins, attached
\* help); it aborts exactly when it aborts under the fixed order.
C14_RegisterOrderIndependent ==
    pc # "start" =>
        LET gens  == GeneratorsOf(cmd, heap)
            rules == OutputRulesOf(cmd, heap)
            fixed == RegisterInFixedOrder(FixedOrder(DOMAIN gens), 1, gens, rules, EmptyMap)
        IN  /\ RegisterReturned =>
                 /\ ~fixed.panicked
                 /\ registry[cmd.markerRegistry] = fixed.reg
            /\ (pc = "panicked" /\ branch = "none") => fixed.panicked

C14_Witness ==
    /\ pc = "registered"
    /\ DOMAIN GeneratorsOf(cmd, heap) = {<<"a">>, <<"b">>}
    /\ DOMAIN OutputRulesOf(cmd, heap) = {<<"dir">>, <<"stdout">>, <<"x">>}
    /\ registry[cmd.markerRegistry][<<"output", "b", "stdout">>].help # NoHelp

\* The plugins that implement the has-help capability and whose Help()
\* returns a help object: "G1" lacks the capability, "R1" returns nil.
GivesHelp == {"G2", "OutputToDirectory", "OutputToStdout"}

\* C15: a marker register derived from a plugin (generator g for marker g,
\* output rule r for "output:g:r" and "output:r") has a help object attached
\* if and only if that plugin implements the has-help capability and its
\* Help() returns a non-nil object; the attached help is that plugin's, under
\* that marker's name.
C15_HelpAttachedIffPluginGivesHelp ==
    pc # "start" =>
        LET gens  == GeneratorsOf(cmd, heap)
            rules == OutputRulesOf(cmd, heap)
            reg   == registry[cmd.markerRegistry]
            ok(n, obj) ==
                n \in DOMAIN reg =>
                    /\ reg[n].obj = obj
                    /\ reg[n].help # NoHelp <=> obj \in GivesHelp
                    /\ reg[n].help # NoHelp => reg[n].help = <<"help", obj>>
        IN  /\ RegisterReturned =>
                 /\ \A g \in DOMAIN gens : g \in DOMAIN reg /\ ok(g, gens[g])
                 /\ \A g \in DOMAIN gens, r \in DOMAIN rules :
                       /\ <<"output">> \o g \o r \in DOMAIN reg
                       /\ ok(<<"output">> \o g \o r, rules[r])
                 /\ \A r \in DOMAIN rules :
                       <<"output">> \o r \in DOMAIN reg /\ ok(<<"output">> \o r, rules[r])
            /\ \A n \in (DOMAIN reg) \ OptionsMarkers :
                  reg[n].help # NoHelp <=> reg[n].obj \in GivesHelp

C15_Witness ==
    LET reg == registry[cmd.markerRegistry]
    IN  /\ pc = "registered"
        /\ {<<"a">>, <<"b">>, <<"output", "x">>, <<"output", "a", "dir">>} \subseteq DOMAIN reg
        /\ reg[<<"a">>].obj = "G1" /\ reg[<<"a">>].help = NoHelp
        /\ reg[<<"b">>].obj = "G2" /\ reg[<<"b">>].help = <<"help", "G2">>
        /\ reg[<<"output", "x">>].obj = "R1" /\ reg[<<"output", "x">>].help = NoHelp
        /\ reg[<<"output", "a", "dir">>].help = <<"help", "OutputToDirectory">>

\* register has run to its end on the Cmd: both loops done and the engine's
\* option markers added.
RegistrationComplete ==
    /\ iterated = DOMAIN GeneratorsOf(cmd, heap)
    /\ \A r \in DOMAIN OutputRulesOf(cmd, heap) :
          <<"output">> \o r \in DOMAIN registry[cmd.markerRegistry]
    /\ OptionsMarkers \subseteq DOMAIN registry[cmd.markerRegistry]

\* C16: in Run registration completes before the dispatcher is built and
\* before any invocation decision: a flag is parsed and a branch is taken
\* only with register returned and the registry complete; and from then on
\* no step (flag parsing, version, help, marker listing, generator run, error
\* handling) changes the marker registry, the generators, the output rules or
\* the Cmd.
C16_RegistryFrozenAfterRegistration ==
    [][ /\ RegisterReturned => (registry' = registry /\ heap' = heap /\ cmd' = cmd)
        /\ (showVersion' # showVersion \/ helpLevel' # helpLevel
              \/ whichLevel' # whichLevel \/ branch' # branch \/ out' # out)
             => (RegisterReturned /\ RegistrationComplete)
      ]_vars

C16_Witness ==
    /\ pc = "exited"
    /\ branch = "which"
    /\ args.which = 2
    /\ "usage" \in Kinds(HandlerOut)
    /\ RegistrationComplete

\* The categories a write renders.
CategoriesIn(w) == {w.body[j].Category : j \in 1..Len(w.body)}

\* C17 as stated: at every verbosity level no category with an empty name
\* appears in what the renderer writes, on either stream.
C17_EmptyCategoriesSkippedAtEveryLevel ==
    pc = "rendered" =>
        \A i \in 1..Len(hres.out) : "" \notin CategoriesIn(hres.out[i])

\* C17 as amended: at levels 1 to 3 (summary, detailed, full) no category with
\* an empty name appears in what the renderer writes; at level 4 the json
\* document is the whole categorized marker info, the categories with an
\* empty name included.
C17_EmptyCategoriesSkippedInText ==
    pc = "rendered" =>
        /\ \A i \in 1..Len(hres.out) :
              hres.out[i].kind # "json" => "" \notin CategoriesIn(hres.out[i])
        /\ hlevel \in 1..3 =>
              \A i \in 1..Len(hres.out) : "" \notin CategoriesIn(hres.out[i])
        /\ (hlevel = 4 /\ hres.err = NoError) =>
              /\ Len(hres.out) = 1
              /\ hres.out[1].body = hinfo
              /\ CategoriesIn(hres.out[1]) = {hinfo[j].Category : j \in 1..Len(hinfo)}

C17_Witness ==
    /\ pc = "rendered"
    /\ hlevel = 4
    /\ Len(hinfo) = 2
    /\ Len(hres.out) = 1
    /\ "" \in CategoriesIn(hres.out[1])

\* C18: register called a second time on the same Cmd finds its marker names
\* in the registry the Cmd shares with its copies and aborts at its first
\* Register call; a second Apply on the same Builder gives a Cmd with a
\* registry of its own, new and empty, and registering it leaves the first
\* registry as it was, does not abort, and fills the new registry like the
\* first.
C18_SecondRegisterAbortsSecondApplyDoesNot ==
    [][ /\ (pc = "applied" /\ iterated = {} /\ registry[cmd.markerRegistry] # EmptyMap)
             => (pc' = "panicked" /\ exitCode' = 2)
        /\ (pc = "registered" /\ heap' # heap) =>
             /\ cmd'.markerRegistry \notin DOMAIN registry
             /\ cmd'.markerRegistry # cmd.markerRegistry
             /\ registry'[cmd'.markerRegistry] = EmptyMap
             /\ registry'[cmd.markerRegistry] = registry[cmd.markerRegistry]
        /\ (pc # "start" /\ cmd.markerRegistry = <<"registry", 2>>) =>
             /\ pc' # "panicked"
             /\ registry'[<<"registry", 1>>] = registry[<<"registry", 1>>]
             /\ pc' = "registered" =>
                  registry'[<<"registry", 2>>] = registry[<<"registry", 1>>]
      ]_vars

C18_Witness ==
    /\ pc = "panicked"
    /\ cmd.markerRegistry = <<"registry", 1>>
    /\ DOMAIN GeneratorsOf(cmd, heap) # {}
    /\ RegistrationComplete

\* C19: register completes without aborting if and only if the marker names
\* it derives (g, "output:g:r", "output:r" over all generator keys g and rule
\* keys r) and the engine's option marker names are pairwise distinct; keys
\* unique within each map do not suffice.
C19_RegisterCompletesIffNamesDistinct ==
    pc # "start" =>
        LET gens  == GeneratorsOf(cmd, heap)
            rules == OutputRulesOf(cmd, heap)
        IN  /\ RegisterReturned => NoCollision(gens, rules)
            /\ (pc = "panicked" /\ branch = "none") => ~NoCollision(gens, rules)
            /\ (pc = "applied" /\ iterated = DOMAIN gens /\ NoCollision(gens, rules)) =>
                  \A do \in Orders(DOMAIN rules) :
                     ~registerDefaults(rules, registry[cmd.markerRegistry], do).panicked

C19_Witness ==
    /\ pc = "panicked"
    /\ branch = "none"
    /\ dupKeys = {}
    /\ DOMAIN GeneratorsOf(cmd, heap) = {<<"output", "dir">>}
    /\ <<"dir">> \in DOMAIN OutputRulesOf(cmd, heap)

\* The marker docs among the writes ws.
MarkerDocs(ws) == SelectSeq(ws, LAMBDA w : w.kind \in {"summary", "details", "json"})

\* ws renders the marker options at the given level: summary blocks at 1,
\* details blocks at 2 and 3 (full detail at 3), the json document at 4,
\* nothing above; complete says that no write failed.
RendersAtLevel(ws, level, complete) ==
    LET docs  == MarkerDocs(ws)
        named == NamedCategories(ByCategory(registry[cmd.markerRegistry]))
    IN  /\ level = 1 => Kinds(docs) \subseteq {"summary"}
        /\ level \in {2, 3} =>
              \A i \in 1..Len(docs) :
                 docs[i].kind = "details" /\ docs[i].fullDetail = (level = 3)
        /\ level = 4 => Kinds(docs) \subseteq {"json"}
        /\ level > 4 => docs = <<>>
        /\ (complete /\ level \in 1..3) => Len(docs) = Len(named)
        /\ (complete /\ level = 4) => Len(docs) = 1

\* C20: whenever the usage text is rendered with the -h counter at 0 (Run's
\* error handling after a run without -h), the marker options are rendered
\* at summary level and the counter is left at 1; with the counter already
\* non-zero (the -h branch of RunE, or Run's error handling after it) the
\* usage function renders at that level and leaves the counter unchanged.
\* Without the usage function having run the counter keeps its value.
C20_UsageDefaultsToSummary ==
    /\ (RunEnded /\ "usage" \in Kinds(HandlerOut)) =>
          /\ helpLevel = (IF args.help = 0 THEN 1 ELSE args.help)
          /\ RendersAtLevel(HandlerOut, helpLevel, failed # "usage")
    /\ (branch = "help" /\ "usage" \in Kinds(DispatchOut)) =>
          /\ helpLevel = args.help
          /\ RendersAtLevel(DispatchOut, args.help, err = NoError)
    /\ (branch # "none" /\ "usage" \notin Kinds(out)) => helpLevel = args.help

C20_Witness ==
    /\ pc = "exited"
    /\ err = ErrOptions
    /\ args.help = 0
    /\ helpLevel = 1
    /\ Kinds(MarkerDocs(HandlerOut)) = {"summary"}

====
